---------------------------- MODULE Spec2Model ----------------------------
(***************************************************************************)
(* A model of lib/urlapi.c: the URL handle (struct Curl_URL), its parser   *)
(* (parseurl and helpers), the relative resolver (Curl_concat_url), the    *)
(* escaping pair (Curl_strlen_url / Curl_strcpy_url) and the accessor API  *)
(* (curl_url, curl_url_cleanup, curl_url_dup, curl_url_get, curl_url_set). *)
(*                                                                         *)
(* A C string is a sequence of byte values 1..255 (the terminating NUL is  *)
(* not stored); a position in a string is a 1-based index, Len(s)+1 is the *)
(* position of the terminator and 0 is the null pointer.                   *)
(*                                                                         *)
(* A local variable of the C code is bound with Bind, which computes its   *)
(* value once.                                                             *)
(***************************************************************************)
EXTENDS Integers, Sequences, FiniteSets, TLC

(***************************************************************************)
(* Bytes and C library helpers                                             *)
(***************************************************************************)

\* the printable ASCII characters 32..95 and 97..126, in code order
PrintableLow ==
  " !\"#$%&'()*+,-./0123456789:;<=>?@ABCDEFGHIJKLMNOPQRSTUVWXYZ[\\]^_"
PrintableHigh == "abcdefghijklmnopqrstuvwxyz{|}~"

\* the byte value of a one-character TLA+ string
Ord(c) ==
  IF \E i \in 1..Len(PrintableLow) : SubSeq(PrintableLow, i, i) = c
  THEN 31 + (CHOOSE i \in 1..Len(PrintableLow) : SubSeq(PrintableLow, i, i) = c)
  ELSE 96 + (CHOOSE i \in 1..Len(PrintableHigh) : SubSeq(PrintableHigh, i, i) = c)

\* a TLA+ string literal as a C string (sequence of bytes)
S(str) == [i \in 1..Len(str) |-> Ord(SubSeq(str, i, i))]

NUL == 0
NL == 10
SPACE == Ord(" ")
PERCENT == Ord("%")
PLUS == Ord("+")
SLASH == Ord("/")
BACKSLASH == Ord("\\")
COLON == Ord(":")
SEMI == Ord(";")
QMARK == Ord("?")
HASH == Ord("#")
AMP == Ord("&")
AT == Ord("@")
DOT == Ord(".")
DASH == Ord("-")
PIPE == Ord("|")
LBRACKET == Ord("[")
RBRACKET == Ord("]")

Digits == Ord("0")..Ord("9")
Lower == Ord("a")..Ord("z")
Upper == Ord("A")..Ord("Z")
HexChars == Digits \cup (Ord("a")..Ord("f")) \cup (Ord("A")..Ord("F"))

\* a local variable: v is computed once and F sees its value
Bind(v, F(_)) == F(v)

Min(I) == CHOOSE m \in I : \A k \in I : m <= k
Max(I) == CHOOSE m \in I : \A k \in I : m >= k

\* the first, and the last, of a set of positions; 0 (NULL) when it is empty
FirstOf(I) == IF I = {} THEN 0 ELSE Min(I)
LastOf(I) == IF I = {} THEN 0 ELSE Max(I)

\* the byte at position i of a NUL-terminated string
At(s, i) == IF i >= 1 /\ i <= Len(s) THEN s[i] ELSE NUL

\* the string starting at position i
From(s, i) == SubSeq(s, i, Len(s))

\* *pos = 0 in a C string: the string now ends before pos
CutAt(s, pos) == SubSeq(s, 1, pos - 1)

\* if(pos) *pos = 0
CutAtOr(s, pos) == IF pos # 0 THEN CutAt(s, pos) ELSE s

\* strchr(s + from - 1, c): position of the first c at or after from, 0 if none
StrChr(s, c, from) == FirstOf({i \in from..Len(s) : s[i] = c})

\* strrchr(s + from - 1, c): position of the last c at or after from, 0 if none
StrRChr(s, c, from) == LastOf({i \in from..Len(s) : s[i] = c})

\* strstr(s, "//"): position of the first "//", 0 if none
StrStrSlashSlash(s) ==
  FirstOf({i \in 1..(Len(s) - 1) : s[i] = SLASH /\ s[i + 1] = SLASH})

\* the number of leading bytes of s, from position i on, that are in cs,
\* at most max of them (a scanf "%<max>[...]" conversion; also strspn)
Span(s, i, cs, max) ==
  Bind(IF Len(s) - i + 1 < max THEN Len(s) - i + 1 ELSE max, LAMBDA lim :
    IF lim <= 0 THEN 0
    ELSE Max({k \in 0..lim : \A j \in 0..(k - 1) : s[i + j] \in cs}))

\* the same for a negated scanset "%<max>[^...]"
SpanNot(s, i, cs, max) == Span(s, i, (1..255) \ cs, max)

ToLower(c) == IF c \in Upper THEN c + 32 ELSE c

LowerStr(s) == [i \in 1..Len(s) |-> ToLower(s[i])]

\* strncasecompare / checkprefix: s starts, at position i, with prefix p,
\* compared without regard to ASCII case
CasePrefixAt(p, s, i) ==
  /\ Len(s) - i + 1 >= Len(p)
  /\ \A j \in 1..Len(p) : ToLower(s[i + j - 1]) = ToLower(p[j])

StartsWith(s, p) == Len(s) >= Len(p) /\ SubSeq(s, 1, Len(p)) = p

\* the decimal numeral of a non-negative number (snprintf "%ld")
RECURSIVE Dec(_)
Dec(n) == IF n < 10 THEN <<Ord("0") + n>>
          ELSE Dec(n \div 10) \o <<Ord("0") + (n % 10)>>

\* the value of a string of decimal digits
RECURSIVE DecVal(_)
DecVal(s) == IF s = <<>> THEN 0
             ELSE 10 * DecVal(SubSeq(s, 1, Len(s) - 1)) + (s[Len(s)] - Ord("0"))

\* ISCNTRL, ISSPACE, ISGRAPH of an unsigned char in the C locale
ISCNTRL(c) == c \in 0..31 \/ c = 127
ISSPACE(c) == c = SPACE \/ c \in 9..13
ISGRAPH(c) == c \in 33..126

\* the number a string of digits stands for.  A long too large for the
\* model's integers is kept as 2^31 - 1: the callers only compare the result
\* with 0 and 0xffff.
Magnitude(ds) ==
  IF Len(ds) > 9 /\ \E i \in 1..(Len(ds) - 9) : ds[i] # Ord("0")
  THEN 2147483647 ELSE DecVal(ds)

\* strtol(s + from - 1, &rest, 10): the value and the position of rest.
\* Leading white space and one sign are skipped; with no digits the value
\* is 0 and rest is the start of the input.
StrToL(s, from) ==
  Bind(from + Span(s, from, {SPACE} \cup (9..13), Len(s)), LAMBDA p :
  Bind(IF At(s, p) \in {PLUS, DASH} THEN p + 1 ELSE p, LAMBDA d :
  Bind(Span(s, d, Digits, Len(s)), LAMBDA nd :
    IF nd = 0 THEN [val |-> 0, rest |-> from]
    ELSE [val |-> IF At(s, p) = DASH
                  THEN 0 - Magnitude(SubSeq(s, d, d + nd - 1))
                  ELSE Magnitude(SubSeq(s, d, d + nd - 1)),
          rest |-> d + nd])))

(***************************************************************************)
(* Percent-encoding: Curl_strlen_url and Curl_strcpy_url                   *)
(***************************************************************************)

\* find_host_sep: the position of the separator at the end of the host
\* name, or of the '?' in cases like http://www.url.com?id=2380
find_host_sep(url) ==
  Bind(StrStrSlashSlash(url), LAMBDA dslash :
  Bind(IF dslash = 0 THEN 1 ELSE dslash + 2, LAMBDA start :
  Bind(StrChr(url, SLASH, start), LAMBDA slash :
  Bind(StrChr(url, QMARK, start), LAMBDA query :
  Bind(IF slash = 0 THEN Len(url) + 1 ELSE slash, LAMBDA sep :
  Bind(IF query = 0 THEN Len(url) + 1 ELSE query, LAMBDA qsep :
    IF sep < qsep THEN sep ELSE qsep))))))

urlchar_needs_escaping(c) == ~(ISCNTRL(c) \/ ISSPACE(c) \/ ISGRAPH(c))

\* the loop of Curl_strlen_url from position ptr on
RECURSIVE strlen_url_loop(_, _, _, _, _)
strlen_url_loop(url, host_sep, ptr, left, newlen) ==
  IF ptr > Len(url) THEN newlen
  ELSE IF ptr < host_sep
  THEN strlen_url_loop(url, host_sep, ptr + 1, left, newlen + 1)
  ELSE IF url[ptr] = SPACE
  THEN strlen_url_loop(url, host_sep, ptr + 1, left,
                       IF left THEN newlen + 3 ELSE newlen + 1)
  ELSE strlen_url_loop(url, host_sep, ptr + 1, left /\ url[ptr] # QMARK,
                       (IF urlchar_needs_escaping(url[ptr])
                        THEN newlen + 2 ELSE newlen) + 1)

\* Curl_strlen_url skipping the host part whatever relative says
strlen_url_absolute(url, relative) ==
  strlen_url_loop(url, find_host_sep(url), 1, TRUE, 0)

Curl_strlen_url(url, relative) ==
  strlen_url_loop(url, IF relative THEN 1 ELSE find_host_sep(url), 1, TRUE, 0)

\* one lower-case hexadecimal digit (snprintf "%x")
HexDigit(n) == IF n < 10 THEN Ord("0") + n ELSE Ord("a") + (n - 10)

\* snprintf(optr, 4, "%%%02x", c) for an unsigned char c
PercentEncode(c) == <<PERCENT, HexDigit(c \div 16), HexDigit(c % 16)>>

\* the loop of Curl_strcpy_url from position iptr on; output is what has been
\* written so far
RECURSIVE strcpy_url_loop(_, _, _, _, _)
strcpy_url_loop(url, host_sep, iptr, left, output) ==
  IF iptr > Len(url) THEN output
  ELSE IF iptr < host_sep
  THEN strcpy_url_loop(url, host_sep, iptr + 1, left, Append(output, url[iptr]))
  ELSE IF url[iptr] = SPACE
  THEN strcpy_url_loop(url, host_sep, iptr + 1, left,
                       IF left THEN output \o <<PERCENT, Ord("2"), Ord("0")>>
                       ELSE Append(output, PLUS))
  ELSE strcpy_url_loop(url, host_sep, iptr + 1, left /\ url[iptr] # QMARK,
                       IF urlchar_needs_escaping(url[iptr])
                       THEN output \o PercentEncode(url[iptr])
                       ELSE Append(output, url[iptr]))

\* the bytes Curl_strcpy_url writes before the terminator
Curl_strcpy_url(url, relative) ==
  strcpy_url_loop(url, IF relative THEN 1 ELSE find_host_sep(url), 1, TRUE, <<>>)

\* Curl_is_absolute_url: sscanf(url, "%15[^?&/:]://%c", prot, &letter)
\* assigns both items
Curl_is_absolute_url(url) ==
  Bind(SpanNot(url, 1, {QMARK, AMP, SLASH, COLON}, 15), LAMBDA n :
    /\ n >= 1
    /\ At(url, n + 1) = COLON
    /\ At(url, n + 2) = SLASH
    /\ At(url, n + 3) = SLASH
    /\ At(url, n + 4) # NUL)

(***************************************************************************)
(* The relative resolver: Curl_concat_url                                  *)
(***************************************************************************)

\* the number of leading "../" of relurl from position i on
RECURSIVE CountDotDot(_, _)
CountDotDot(relurl, i) ==
  IF At(relurl, i) = DOT /\ At(relurl, i + 1) = DOT /\ At(relurl, i + 2) = SLASH
  THEN 1 + CountDotDot(relurl, i + 3)
  ELSE 0

\* the loop cutting levels left after its first round
CutLevelsOnce(clone, protsep, level) ==
  IF level = 0 THEN clone
  ELSE IF StrRChr(clone, SLASH, protsep) # 0
  THEN CutAt(clone, StrRChr(clone, SLASH, protsep))
  ELSE CutAt(clone, protsep)

\* while(level--): cut one more level off the right of the original URL;
\* without a slash left the rest after protsep is emptied and the loop ends
RECURSIVE CutLevels(_, _, _)
CutLevels(clone, protsep, level) ==
  IF level = 0 THEN clone
  ELSE IF StrRChr(clone, SLASH, protsep) # 0
  THEN CutLevels(CutAt(clone, StrRChr(clone, SLASH, protsep)), protsep,
                 level - 1)
  ELSE CutAt(clone, protsep)

\* the state of Curl_concat_url before it allocates newest: url_clone as
\* cut, protsep (0 when NULL), the start of useurl in relurl, host_changed
CutState(clone, protsep, useurl, host_changed) ==
  [clone |-> clone, protsep |-> protsep, useurl |-> useurl,
   host_changed |-> host_changed]

\* the branch of Curl_concat_url for a relurl that does not start with a
\* slash; protsep is the start of the host name
CutRelative(base, relurl, protsep) ==
  Bind(CutAtOr(base, StrChr(base, QMARK, protsep)), LAMBDA noquery :
  Bind(IF At(relurl, 1) # QMARK
       THEN CutAtOr(noquery, StrRChr(noquery, SLASH, protsep))
       ELSE noquery, LAMBDA clone :
  Bind(StrChr(clone, SLASH, protsep), LAMBDA pathsep :
  Bind(IF At(relurl, 1) = DOT /\ At(relurl, 2) = SLASH THEN 3 ELSE 1,
       LAMBDA useurl :
  Bind(CountDotDot(relurl, useurl), LAMBDA level :
    IF pathsep # 0
    THEN CutState(CutLevels(clone, pathsep + 1, level), pathsep + 1,
                  useurl + 3 * level, FALSE)
    ELSE CutState(clone, 0, useurl + 3 * level, FALSE))))))

\* the branch for a relurl that starts with a slash
CutAbsolute(base, relurl, protsep) ==
  IF At(relurl, 2) = SLASH
  THEN CutState(CutAt(base, protsep), protsep, 3, TRUE)
  ELSE Bind(StrChr(base, SLASH, protsep), LAMBDA pathsep :
       Bind(StrChr(base, QMARK, protsep), LAMBDA sep :
         IF pathsep # 0
         THEN CutState(CutAt(base, IF sep # 0 /\ sep < pathsep THEN sep
                                   ELSE pathsep),
                       protsep, 1, FALSE)
         ELSE CutState(CutAtOr(base, sep), protsep, 1, FALSE)))

\* Curl_concat_url up to the allocation of newest
ConcatCut(base, relurl) ==
  Bind(StrStrSlashSlash(base), LAMBDA dslash :
  Bind(IF dslash = 0 THEN 1 ELSE dslash + 2, LAMBDA protsep :
    IF At(relurl, 1) # SLASH THEN CutRelative(base, relurl, protsep)
    ELSE CutAbsolute(base, relurl, protsep)))

\* Curl_concat_url skipping the host name where the authority was kept
Curl_concat_url_skip_kept(base, relurl) ==
  Bind(ConcatCut(base, relurl), LAMBDA cut :
  Bind(From(relurl, cut.useurl), LAMBDA useurl :
  Bind(Curl_strlen_url(useurl, cut.host_changed), LAMBDA newlen :
  Bind(IF \/ At(useurl, 1) = SLASH
          \/ (cut.protsep # 0 /\ At(cut.clone, cut.protsep) = NUL)
          \/ At(useurl, 1) = QMARK
       THEN cut.clone
       ELSE Append(cut.clone, SLASH), LAMBDA root :
  Bind(root \o Curl_strcpy_url(useurl, cut.host_changed), LAMBDA newest :
    [str |-> newest, size |-> Len(cut.clone) + 1 + newlen + 1,
     written |-> Len(newest) + 1])))))

\* Curl_concat_url with both allocations succeeding: the string returned,
\* the size of the buffer newest and the number of bytes written to it,
\* terminator included
Curl_concat_url(base, relurl) ==
  Bind(ConcatCut(base, relurl), LAMBDA cut :
  Bind(From(relurl, cut.useurl), LAMBDA useurl :
  Bind(Curl_strlen_url(useurl, ~cut.host_changed), LAMBDA newlen :
  Bind(Len(cut.clone), LAMBDA urllen :
  Bind(IF \/ At(useurl, 1) = SLASH
          \/ (cut.protsep # 0 /\ At(cut.clone, cut.protsep) = NUL)
          \/ At(useurl, 1) = QMARK
       THEN cut.clone
       ELSE Append(cut.clone, SLASH), LAMBDA root :
  Bind(root \o Curl_strcpy_url(useurl, ~cut.host_changed), LAMBDA newest :
    [str |-> newest, size |-> urllen + 1 + newlen + 1,
     written |-> Len(newest) + 1]))))))

(***************************************************************************)
(* The handle and the collaborators of the parser                          *)
(***************************************************************************)

\* an optional string: NULL, or one string
NULL == <<>>
Some(s) == <<s>>

CURLURLE_OK == "CURLURLE_OK"
CURLURLE_MALFORMED_INPUT == "CURLURLE_MALFORMED_INPUT"
CURLURLE_BAD_PORT_NUMBER == "CURLURLE_BAD_PORT_NUMBER"
CURLURLE_UNSUPPORTED_SCHEME == "CURLURLE_UNSUPPORTED_SCHEME"
CURLURLE_USER_NOT_ALLOWED == "CURLURLE_USER_NOT_ALLOWED"
CURLURLE_UNKNOWN_PART == "CURLURLE_UNKNOWN_PART"
CURLURLE_NO_SCHEME == "CURLURLE_NO_SCHEME"
CURLURLE_NO_HOST == "CURLURLE_NO_HOST"
CURLURLE_OUT_OF_MEMORY == "CURLURLE_OUT_OF_MEMORY"

\* the option bits of the flags argument, as a set of names
CURLURL_DEFAULT_PORT == "CURLURL_DEFAULT_PORT"
CURLURL_NO_DEFAULT_PORT == "CURLURL_NO_DEFAULT_PORT"
CURLURL_DEFAULT_SCHEME == "CURLURL_DEFAULT_SCHEME"
CURLURL_NON_SUPPORT_SCHEME == "CURLURL_NON_SUPPORT_SCHEME"
CURLURL_PATH_AS_IS == "CURLURL_PATH_AS_IS"
CURLURL_DISALLOW_USER == "CURLURL_DISALLOW_USER"
CURLURL_VERIFY_ONLY == "CURLURL_VERIFY_ONLY"

DEFAULT_SCHEME == S("https")

\* the string members of struct Curl_URL, in declaration order
StringMembers == <<"scheme", "user", "password", "options", "host", "port",
                   "path", "query", "fragment">>

\* struct Curl_URL after calloc, by value: every string NULL, portnum 0
ZeroURL == [scheme |-> NULL, user |-> NULL, password |-> NULL,
            options |-> NULL, host |-> NULL, port |-> NULL, path |-> NULL,
            query |-> NULL, fragment |-> NULL, scratch |-> NULL,
            portnum |-> 0]

\* The scheme registry behind Curl_builtin_scheme, restricted to four
\* schemes: the default port of each registered scheme.
SchemeNames == <<S("http"), S("https"), S("ftp"), S("file")>>
SchemePorts == <<80, 443, 21, 0>>

\* Curl_builtin_scheme(scheme): the index of the handler, 0 when there is
\* none; names compare without regard to case
Curl_builtin_scheme(scheme) ==
  FirstOf({i \in 1..Len(SchemeNames) : SchemeNames[i] = LowerStr(scheme)})

\* h->defport of the handler with index h
defport(h) == SchemePorts[h]

\* the last segment of the output buffer, with its leading slash, removed
\* (RFC 3986 5.2.4 step 2C)
DropLastSegment(out) ==
  IF StrRChr(out, SLASH, 1) = 0 THEN <<>>
  ELSE CutAt(out, StrRChr(out, SLASH, 1))

\* RFC 3986 5.2.4 remove_dot_segments on input buffer in and output out
RECURSIVE RemoveDotSegments(_, _)
RemoveDotSegments(in, out) ==
  IF in = <<>> THEN out
  ELSE IF StartsWith(in, <<DOT, DOT, SLASH>>) THEN RemoveDotSegments(From(in, 4), out)
  ELSE IF StartsWith(in, <<DOT, SLASH>>) THEN RemoveDotSegments(From(in, 3), out)
  ELSE IF StartsWith(in, <<SLASH, DOT, SLASH>>) THEN RemoveDotSegments(From(in, 3), out)
  ELSE IF in = <<SLASH, DOT>> THEN RemoveDotSegments(<<SLASH>>, out)
  ELSE IF StartsWith(in, <<SLASH, DOT, DOT, SLASH>>)
  THEN RemoveDotSegments(From(in, 4), DropLastSegment(out))
  ELSE IF in = <<SLASH, DOT, DOT>> THEN RemoveDotSegments(<<SLASH>>, DropLastSegment(out))
  ELSE IF in = <<DOT>> \/ in = <<DOT, DOT>> THEN out
  ELSE Bind(IF StrChr(in, SLASH, 2) = 0 THEN Len(in)
            ELSE StrChr(in, SLASH, 2) - 1, LAMBDA seg :
         RemoveDotSegments(From(in, seg + 1), out \o SubSeq(in, 1, seg)))

\* Curl_dedotdotify(path): the dot-segment-normalized path
Curl_dedotdotify(path) == RemoveDotSegments(path, <<>>)

\* a portion of the login string, NULL when it is empty
Portion(login, start, len) ==
  IF len > 0 THEN Some(SubSeq(login, start, start + len - 1)) ELSE NULL

\* Curl_parse_login_details(login, len, &userp, &passwdp, &optionsp) when no
\* allocation fails: "user[:password][;options]" split at the first ':' and
\* the first ';'; an empty portion stays NULL
Curl_parse_login_details(login) ==
  Bind(StrChr(login, COLON, 1), LAMBDA psep :
  Bind(StrChr(login, SEMI, 1), LAMBDA osep :
    [userp |->
       Portion(login, 1,
               IF psep # 0
               THEN (IF osep # 0 /\ psep > osep THEN osep - 1 ELSE psep - 1)
               ELSE (IF osep # 0 THEN osep - 1 ELSE Len(login))),
     passwdp |->
       Portion(login, psep + 1,
               IF psep # 0
               THEN (IF osep # 0 /\ osep > psep THEN osep - psep
                     ELSE Len(login) + 1 - psep) - 1
               ELSE 0),
     optionsp |->
       Portion(login, osep + 1,
               IF osep # 0
               THEN (IF psep # 0 /\ psep > osep THEN psep - osep
                     ELSE Len(login) + 1 - osep) - 1
               ELSE 0)]))

(***************************************************************************)
(* The parser: parse_hostname_login, parse_port, hostname_check, parseurl. *)
(* oom names the allocation that fails ("" when none does).  The parser    *)
(* works on values; the blocks the handle owns when it returns are put on  *)
(* the heap by curl_url.                                                   *)
(***************************************************************************)

\* what a parsing step returns: its result, u as it leaves it, and the host
\* name as it leaves it
Step(result, u, hostname) == [result |-> result, u |-> u, hostname |-> hostname]

\* parse_hostname_login: the login details stored in u and the host name
\* with them stripped
parse_hostname_login(u, hostname, flags, oom) ==
  Bind(StrChr(hostname, AT, 1), LAMBDA ptr :
    IF ptr = 0 THEN Step(CURLURLE_OK, u, hostname)
    ELSE IF oom = "login"
    THEN Step(CURLURLE_MALFORMED_INPUT, u, From(hostname, ptr + 1))
    ELSE Bind(Curl_parse_login_details(SubSeq(hostname, 1, ptr - 1)), LAMBDA d :
           IF d.userp # NULL /\ CURLURL_DISALLOW_USER \in flags
           THEN Step(CURLURLE_USER_NOT_ALLOWED, u, From(hostname, ptr + 1))
           ELSE Step(CURLURLE_OK,
                     [u EXCEPT !.user = d.userp, !.password = d.passwdp,
                               !.options = d.optionsp],
                     From(hostname, ptr + 1))))

\* the characters accepted between the brackets of an IP literal
BracketChars == HexChars \cup {COLON, DOT}

\* sscanf(hostname, "[%*45[0123456789abcdefABCDEF:.]%c%n", &endbracket, &len):
\* the number of items assigned, endbracket and len
ScanBracket(hostname) ==
  Bind(Span(hostname, 2, BracketChars, 45), LAMBDA k :
    IF At(hostname, 1) = LBRACKET /\ k >= 1 /\ At(hostname, k + 2) # NUL
    THEN [rc |-> 1, endbracket |-> At(hostname, k + 2), len |-> k + 2]
    ELSE [rc |-> 0, endbracket |-> NUL, len |-> 0])

\* parse_port from if(portptr) on; portptr is 0 when NULL
PortAt(u, hostname, oom, portptr) ==
  IF portptr = 0 THEN Step(CURLURLE_OK, u, hostname)
  ELSE Bind(StrToL(hostname, portptr + 1), LAMBDA conv :
         IF conv.val <= 0 \/ conv.val > 65535
         THEN Step(CURLURLE_BAD_PORT_NUMBER, u, hostname)
         ELSE IF At(hostname, conv.rest) # NUL
         THEN Step(CURLURLE_BAD_PORT_NUMBER, u, hostname)
         ELSE IF conv.rest # portptr + 1
         THEN IF oom = "port"
              THEN Step(CURLURLE_OUT_OF_MEMORY, [u EXCEPT !.portnum = conv.val],
                        CutAt(hostname, portptr))
              ELSE Step(CURLURLE_OK,
                        [u EXCEPT !.portnum = conv.val,
                                  !.port = Some(Dec(conv.val))],
                        CutAt(hostname, portptr))
         ELSE Step(CURLURLE_OK, u, CutAt(hostname, portptr)))

\* parse_port: the port stored in u and the host name cut before it
parse_port(u, hostname, oom) ==
  Bind(ScanBracket(hostname), LAMBDA sc :
    IF sc.rc = 1 /\ sc.endbracket = RBRACKET
    THEN IF At(hostname, sc.len + 1) # COLON
         THEN Step(CURLURLE_MALFORMED_INPUT, u, hostname)
         ELSE PortAt(u, hostname, oom, sc.len + 1)
    ELSE PortAt(u, hostname, oom, StrChr(hostname, COLON, 1)))

\* hostname_check.  hlen is a size_t: for a host name of one byte, "[",
\* hlen - 2 wraps around to a value above every length, which is kept here
\* as a negative number (it differs from every strspn result either way).
hostname_check(hostname) ==
  Bind(IF At(hostname, 1) = LBRACKET THEN Len(hostname) - 2 ELSE Len(hostname),
       LAMBDA hlen :
  Bind(IF At(hostname, 1) = LBRACKET
       THEN Span(hostname, 2, BracketChars, Len(hostname))
       ELSE Span(hostname, 1, Digits \cup Lower \cup Upper \cup {DASH, DOT},
                 Len(hostname)), LAMBDA len :
    IF hlen # len THEN CURLURLE_MALFORMED_INPUT ELSE CURLURLE_OK))

\* STARTS_WITH_URL_DRIVE_PREFIX(&str[i - 1])
STARTS_WITH_URL_DRIVE_PREFIX(str, i) ==
  /\ At(str, i) \in Lower \cup Upper
  /\ At(str, i + 1) \in {COLON, PIPE}
  /\ At(str, i + 2) \in {SLASH, BACKSLASH, NUL}

\* the build is for a platform with drive letters (MSDOS, WIN32, __CYGWIN__)
DriveLetterPlatform == FALSE

\* the scheme check of parseurl: the first of the first 16 bytes that is a
\* '/' or a ':' is a ':'
url_has_scheme(url) ==
  Bind({i \in 1..16 : At(url, i) \in {SLASH, COLON}}, LAMBDA seps :
    seps # {} /\ At(url, Min(seps)) = COLON)

\* what the sscanf calls of parseurl deliver
Scanned(result, schemep, hostname, path) ==
  [result |-> result, schemep |-> schemep, hostname |-> hostname, path |-> path]

BadScan == Scanned(CURLURLE_MALFORMED_INPUT, <<>>, <<>>, <<>>)

\* a "%[^\n]" conversion at position i: the bytes it stores (none if it fails)
ScanLine(url, i) == SubSeq(url, i, i + SpanNot(url, i, {NL}, Len(url)) - 1)

\* the file: branch from the drive letter check on
FileDrive(path) ==
  IF ~DriveLetterPlatform
  THEN IF \/ (At(path, 1) = SLASH /\ STARTS_WITH_URL_DRIVE_PREFIX(path, 2))
          \/ STARTS_WITH_URL_DRIVE_PREFIX(path, 1)
       THEN BadScan
       ELSE Scanned(CURLURLE_OK, <<>>, <<>>, path)
  ELSE Scanned(CURLURLE_OK, <<>>, <<>>,
               IF At(path, 1) = SLASH /\ STARTS_WITH_URL_DRIVE_PREFIX(path, 2)
               THEN From(path, 2) ELSE path)

\* the file: branch of parseurl: the path scanned from the URL by
\* sscanf(url, "%*15[^\n/:]:%[^\n]", path) and stripped of the authority
ParseFile(url) ==
  Bind(SpanNot(url, 1, {NL, SLASH, COLON}, 15), LAMBDA n :
  Bind(ScanLine(url, n + 2), LAMBDA scanned :
    IF ~(n >= 1 /\ At(url, n + 1) = COLON /\ scanned # <<>>) THEN BadScan
    ELSE IF At(scanned, 1) = SLASH /\ At(scanned, 2) = SLASH
    THEN IF At(scanned, 3) # SLASH /\ ~STARTS_WITH_URL_DRIVE_PREFIX(scanned, 3)
         THEN IF /\ ~CasePrefixAt(S("localhost/"), scanned, 3)
                 /\ ~CasePrefixAt(S("127.0.0.1/"), scanned, 3)
              THEN BadScan
              ELSE FileDrive(From(scanned, 3 + 9))
         ELSE FileDrive(From(scanned, 3))
    ELSE FileDrive(scanned)))

\* the generic branch when the first sscanf assigned fewer than two items:
\* sscanf(url, "%[^\n/?#]%[^\n]", hostname, path) if a default scheme is allowed
GuessScheme(url, flags) ==
  IF CURLURL_DEFAULT_SCHEME \notin flags THEN BadScan
  ELSE Bind(SpanNot(url, 1, {NL, SLASH, QMARK, HASH}, Len(url)), LAMBDA nh :
         IF nh < 1 THEN BadScan
         ELSE Scanned(CURLURLE_OK, DEFAULT_SCHEME, SubSeq(url, 1, nh),
                      ScanLine(url, nh + 1)))

\* the generic branch of parseurl:
\* sscanf(url, "%15[^\n/:]:%3[/]%[^\n/?#]%[^\n]", schemebuf, slashbuf,
\* hostname, path) assigns rc items
ParseGeneric(url, flags) ==
  Bind(SpanNot(url, 1, {NL, SLASH, COLON}, 15), LAMBDA n :
  Bind(Span(url, n + 2, {SLASH}, 3), LAMBDA ns :
  Bind(SpanNot(url, n + 2 + ns, {NL, SLASH, QMARK, HASH}, Len(url)), LAMBDA nh :
  Bind(IF n = 0 THEN 0
       ELSE IF At(url, n + 1) # COLON \/ ns = 0 THEN 1
       ELSE IF nh = 0 THEN 2
       ELSE IF ScanLine(url, n + 2 + ns + nh) = <<>> THEN 3 ELSE 4, LAMBDA rc :
    IF rc = 2 THEN BadScan
    ELSE IF rc < 3 THEN GuessScheme(url, flags)
    ELSE Scanned(CURLURLE_OK, SubSeq(url, 1, n),
                 SubSeq(url, n + 2 + ns, n + 1 + ns + nh),
                 ScanLine(url, n + 2 + ns + nh))))))

\* the query and the fragment cut off the scanned path
SplitPath(scanned) ==
  Bind(StrChr(scanned, QMARK, 1), LAMBDA q :
    IF q # 0
    THEN Bind(StrChr(From(scanned, q + 1), HASH, 1), LAMBDA f :
           [path |-> CutAt(scanned, q),
            query |-> Some(CutAtOr(From(scanned, q + 1), f)),
            fragment |-> IF f # 0 THEN Some(From(scanned, q + 1 + f))
                         ELSE NULL])
    ELSE Bind(StrChr(scanned, HASH, 1), LAMBDA f :
           [path |-> CutAtOr(scanned, f),
            query |-> NULL,
            fragment |-> IF f # 0 THEN Some(From(scanned, f + 1)) ELSE NULL]))

\* what parseurl returns, and u as it is then
Parsed(result, u) == [result |-> result, u |-> u]

\* parseurl from the point where the host name is checked; pp is what
\* parse_port returned
ParseHost(sp, oom, pp) ==
  IF hostname_check(pp.hostname) # CURLURLE_OK
  THEN Parsed(hostname_check(pp.hostname), pp.u)
  ELSE IF oom = "host" THEN Parsed(CURLURLE_OUT_OF_MEMORY, pp.u)
  ELSE Bind([pp.u EXCEPT !.host = Some(pp.hostname)], LAMBDA uh :
       Bind(sp.query # NULL /\ sp.query[1] # <<>>, LAMBDA hasq :
       Bind(IF hasq THEN [uh EXCEPT !.query = sp.query] ELSE uh, LAMBDA uq :
       Bind(sp.fragment # NULL /\ sp.fragment[1] # <<>>, LAMBDA hasf :
         IF hasq /\ oom = "query" THEN Parsed(CURLURLE_OUT_OF_MEMORY, uh)
         ELSE IF hasf /\ oom = "fragment"
         THEN Parsed(CURLURLE_OUT_OF_MEMORY, uq)
         ELSE Parsed(CURLURLE_OK,
                     IF hasf
                     THEN [uq EXCEPT !.fragment = sp.fragment, !.scratch = NULL]
                     ELSE [uq EXCEPT !.scratch = NULL])))))

\* parseurl from the point where the path is stored in u
ParseAuthority(u, hostname, sp, flags, oom) ==
  Bind(parse_hostname_login(u, hostname, flags, oom), LAMBDA lg :
    IF lg.result # CURLURLE_OK THEN Parsed(lg.result, lg.u)
    ELSE Bind(parse_port(lg.u, lg.hostname, oom), LAMBDA pp :
           IF pp.result # CURLURLE_OK THEN Parsed(pp.result, pp.u)
           ELSE ParseHost(sp, oom, pp)))

\* parseurl from the point where query and fragment are cut off the path
ParsePath(u, hostname, sp, flags, oom) ==
  Bind(IF sp.path = <<>> THEN <<SLASH>> ELSE sp.path, LAMBDA path :
  Bind(path[1] = SLASH /\ CURLURL_PATH_AS_IS \notin flags, LAMBDA dedot :
  Bind(IF dedot THEN Curl_dedotdotify(path) ELSE path, LAMBDA newp :
  Bind(dedot /\ newp # path, LAMBDA path_alloced :
    IF dedot /\ oom = "dedotdotify" THEN Parsed(CURLURLE_OUT_OF_MEMORY, u)
    ELSE IF ~path_alloced /\ oom = "path"
    THEN Parsed(CURLURLE_OUT_OF_MEMORY, u)
    ELSE ParseAuthority([u EXCEPT !.path =
                           Some(IF path[1] # SLASH THEN <<SLASH>> \o path
                                ELSE newp)],
                        hostname, sp, flags, oom)))))

\* u with the scratch area allocated
ScratchURL == [ZeroURL EXCEPT !.scratch = Some(<<>>)]

\* the generic branch after its sscanf calls delivered pg
ParseScheme(pg, flags, oom) ==
  IF pg.result # CURLURLE_OK THEN Parsed(pg.result, ScratchURL)
  ELSE IF /\ Curl_builtin_scheme(pg.schemep) = 0
          /\ CURLURL_NON_SUPPORT_SCHEME \notin flags
  THEN Parsed(CURLURLE_UNSUPPORTED_SCHEME, ScratchURL)
  ELSE IF oom = "scheme" THEN Parsed(CURLURLE_OUT_OF_MEMORY, ScratchURL)
  ELSE ParsePath([ScratchURL EXCEPT !.scheme = Some(pg.schemep)],
                 pg.hostname, SplitPath(pg.path), flags, oom)

\* parseurl(url, u, flags) on a zeroed u: the result and u as it is when
\* parseurl returns.  In the file: branch the host name area of the scratch
\* buffer is never written before it is read: uninit is what it holds.
parseurl(url, flags, oom, uninit) ==
  IF At(url, 1) = COLON THEN Parsed(CURLURLE_MALFORMED_INPUT, ZeroURL)
  ELSE IF oom = "scratch" THEN Parsed(CURLURLE_OUT_OF_MEMORY, ZeroURL)
  ELSE IF url_has_scheme(url) /\ CasePrefixAt(S("file:"), url, 1)
  THEN Bind(ParseFile(url), LAMBDA pf :
         IF pf.result # CURLURLE_OK THEN Parsed(pf.result, ScratchURL)
         ELSE ParsePath(ScratchURL, uninit, SplitPath(pf.path), flags, oom))
  ELSE ParseScheme(ParseGeneric(url, flags), flags, oom)

(***************************************************************************)
(* The heap.  strs maps the address of every live string block to its      *)
(* bytes, hs the address of every live struct Curl_URL to its members      *)
(* (string addresses, 0 for NULL, and portnum).                            *)
(***************************************************************************)

\* malloc: the address of the new block (the lowest one not in use)
Malloc(m) ==
  CHOOSE a \in 1..(Cardinality(DOMAIN m) + 1) :
    a \notin DOMAIN m /\ \A b \in 1..(a - 1) : b \in DOMAIN m

\* the heap with block a holding v
Store(m, a, v) == [x \in DOMAIN m \cup {a} |-> IF x = a THEN v ELSE m[x]]

\* free(a); free(NULL) does nothing
Free(m, a) == [x \in DOMAIN m \ {a} |-> m[x]]

\* struct Curl_URL after calloc
ZeroStruct == [scheme |-> 0, user |-> 0, password |-> 0, options |-> 0,
               host |-> 0, port |-> 0, path |-> 0, query |-> 0,
               fragment |-> 0, scratch |-> 0, portnum |-> 0]

\* the members free_urlhandle frees, in its order
FreedMembers == StringMembers \o <<"scratch">>

\* the frees of free_urlhandle, member by member
RECURSIVE FreeMembers(_, _, _)
FreeMembers(m, u, names) ==
  IF names = <<>> THEN m
  ELSE FreeMembers(Free(m, u[Head(names)]), u, Tail(names))

\* free_urlhandle without its free(u->scratch)
free_urlhandle_members(m, u) == FreeMembers(m, u, StringMembers)

\* free_urlhandle(u): the string heap afterwards
free_urlhandle(m, u) == FreeMembers(m, u, FreedMembers)

\* what a call leaves behind: its result, the handle it hands out (0 when
\* NULL), both heaps, and whether it crashed instead of returning
Outcome(result, urlhandle, m, h, crash) ==
  [result |-> result, urlhandle |-> urlhandle, strs |-> m, hs |-> h,
   crashed |-> crash]

\* the strings parseurl stored in u, by value, are the blocks it allocated
RECURSIVE PutMembers(_, _, _, _)
PutMembers(m, u, uval, names) ==
  IF names = <<>> THEN [strs |-> m, u |-> u]
  ELSE IF uval[Head(names)] = NULL THEN PutMembers(m, u, uval, Tail(names))
  ELSE PutMembers(Store(m, Malloc(m), uval[Head(names)][1]),
                  [u EXCEPT ![Head(names)] = Malloc(m)], uval, Tail(names))

\* the members of a struct by value: NULL or the string pointed to
Deref(m, u) ==
  [f \in DOMAIN u |->
     IF f = "portnum" THEN u[f]
     ELSE IF u[f] = 0 THEN NULL ELSE Some(m[u[f]])]

\* curl_url_cleanup(u) for a non-null u
curl_url_cleanup(m, h, u) ==
  Outcome(CURLURLE_OK, 0, free_urlhandle(m, h[u]), Free(h, u), FALSE)

\* curl_url(URL, &urlhandle, flags)
curl_url(m, h, URL, flags, oom, uninit) ==
  IF oom = "handle" THEN Outcome(CURLURLE_OUT_OF_MEMORY, 0, m, h, FALSE)
  ELSE Bind(Malloc(h), LAMBDA u :
       Bind(parseurl(URL, flags, oom, uninit), LAMBDA p :
       Bind(PutMembers(m, [ZeroStruct EXCEPT !.portnum = p.u.portnum], p.u,
                       FreedMembers), LAMBDA put :
         IF p.result # CURLURLE_OK \/ CURLURL_VERIFY_ONLY \in flags
         THEN Bind(curl_url_cleanup(put.strs, Store(h, u, put.u), u), LAMBDA cl :
                Outcome(p.result, 0, cl.strs, cl.hs, FALSE))
         ELSE Outcome(p.result, u, put.strs, Store(h, u, put.u), FALSE))))

\* the DUP macro copying the pointer instead of the string
DupMembersShallow(m, u, in, names, oom) ==
  [ok |-> TRUE, strs |-> m,
   u |-> [f \in DOMAIN u |-> IF f \in {"scratch", "portnum"} THEN u[f]
                              ELSE in[f]]]

\* the DUP macro, member by member; when an allocation fails the copy is
\* left as it is
RECURSIVE DupMembers(_, _, _, _, _)
DupMembers(m, u, in, names, oom) ==
  IF names = <<>> THEN [ok |-> TRUE, strs |-> m, u |-> u]
  ELSE IF in[Head(names)] = 0 THEN DupMembers(m, u, in, Tail(names), oom)
  ELSE IF oom = Head(names) THEN [ok |-> FALSE, strs |-> m, u |-> u]
  ELSE DupMembers(Store(m, Malloc(m), m[in[Head(names)]]),
                  [u EXCEPT ![Head(names)] = Malloc(m)], in, Tail(names), oom)

\* curl_url_dup(in): the result stands for the pointer returned (out of
\* memory for NULL)
curl_url_dup(m, h, in, oom) ==
  IF oom = "handle" THEN Outcome(CURLURLE_OUT_OF_MEMORY, 0, m, h, FALSE)
  ELSE Bind(Malloc(h), LAMBDA u :
       Bind(DupMembers(m, ZeroStruct, h[in], StringMembers, oom), LAMBDA d :
         IF ~d.ok
         THEN Bind(curl_url_cleanup(d.strs, Store(h, u, d.u), u), LAMBDA cl :
                Outcome(CURLURLE_OUT_OF_MEMORY, 0, cl.strs, cl.hs, FALSE))
         ELSE Outcome(CURLURLE_OK, u, d.strs,
                      Store(h, u, [d.u EXCEPT !.portnum = h[in].portnum]),
                      FALSE)))

(***************************************************************************)
(* curl_url_get and curl_url_set                                           *)
(***************************************************************************)

CURLUPART_URL == "CURLUPART_URL"
CURLUPART_SCHEME == "CURLUPART_SCHEME"
CURLUPART_PORT == "CURLUPART_PORT"

\* the member behind each part but the URL
PartMember ==
  [CURLUPART_SCHEME |-> "scheme", CURLUPART_USER |-> "user",
   CURLUPART_PASSWORD |-> "password", CURLUPART_OPTIONS |-> "options",
   CURLUPART_HOST |-> "host", CURLUPART_PORT |-> "port",
   CURLUPART_PATH |-> "path", CURLUPART_QUERY |-> "query",
   CURLUPART_FRAGMENT |-> "fragment"]

\* the error of curl_url_get when the member is not set
IfMissing ==
  [CURLUPART_SCHEME |-> CURLURLE_NO_SCHEME,
   CURLUPART_USER |-> "CURLURLE_NO_USER",
   CURLUPART_PASSWORD |-> "CURLURLE_NO_PASSWORD",
   CURLUPART_OPTIONS |-> "CURLURLE_NO_OPTIONS",
   CURLUPART_HOST |-> CURLURLE_NO_HOST,
   CURLUPART_PORT |-> "CURLURLE_NO_PORT",
   CURLUPART_PATH |-> "CURLURLE_NO_PATH",
   CURLUPART_QUERY |-> "CURLURLE_NO_QUERY",
   CURLUPART_FRAGMENT |-> "CURLURLE_NO_FRAGMENT"]

ScalarParts == DOMAIN PartMember

\* GetPort without the suppression of a stored port that is the default of
\* the scheme
GetPortAsStored(port, portnum, scheme, flags) ==
  IF scheme = NULL THEN port
  ELSE Bind(Curl_builtin_scheme(scheme[1]), LAMBDA handler :
         IF port = NULL /\ CURLURL_DEFAULT_PORT \in flags /\ handler # 0
         THEN Some(Dec(defport(handler)))
         ELSE port)

\* the port curl_url_get delivers for a stored port (NULL when none) and the
\* scheme used for the lookup (NULL when none)
GetPort(port, portnum, scheme, flags) ==
  IF scheme = NULL THEN port
  ELSE Bind(Curl_builtin_scheme(scheme[1]), LAMBDA handler :
         IF port = NULL /\ CURLURL_DEFAULT_PORT \in flags
         THEN (IF handler # 0 THEN Some(Dec(defport(handler))) ELSE port)
         ELSE IF port # NULL
         THEN (IF /\ handler # 0
                  /\ defport(handler) = portnum
                  /\ CURLURL_NO_DEFAULT_PORT \in flags
               THEN NULL ELSE port)
         ELSE port)

\* a "%s%s" pair of the format: the separator and the member, if it is set
Opt(sep, member) == IF member # NULL THEN sep \o member[1] ELSE <<>>

\* what curl_url_get returns, and the string *part is a fresh copy of
Got(rc, str) == [rc |-> rc, str |-> str]

\* the CURLUPART_URL case of curl_url_get on a handle given by value
GetURL(u, flags, oom) ==
  IF u.host = NULL THEN Got(CURLURLE_NO_HOST, NULL)
  ELSE IF u.scheme = NULL /\ CURLURL_DEFAULT_SCHEME \notin flags
  THEN Got(CURLURLE_NO_SCHEME, NULL)
  ELSE IF oom = "aprintf" THEN Got(CURLURLE_OUT_OF_MEMORY, NULL)
  ELSE Bind(IF u.scheme # NULL THEN u.scheme[1] ELSE DEFAULT_SCHEME,
            LAMBDA scheme :
         Got(CURLURLE_OK,
             Some(scheme \o S("://")
                  \o Opt(<<>>, u.user)
                  \o Opt(<<COLON>>, u.password)
                  \o (IF u.user # NULL \/ u.password # NULL THEN <<AT>>
                      ELSE <<>>)
                  \o u.host[1]
                  \o Opt(<<COLON>>,
                         GetPort(u.port, u.portnum, Some(scheme), flags))
                  \o u.path[1]
                  \o Opt(<<QMARK>>, u.query)
                  \o Opt(<<HASH>>, u.fragment))))

\* curl_url_get(u, what, &part, flags) on a handle given by value
curl_url_get(u, what, flags, oom) ==
  IF what = CURLUPART_URL THEN GetURL(u, flags, oom)
  ELSE IF what \notin ScalarParts THEN Got(CURLURLE_UNKNOWN_PART, NULL)
  ELSE Bind(IF what = CURLUPART_PORT
            THEN GetPort(u.port, u.portnum, u.scheme, flags)
            ELSE u[PartMember[what]], LAMBDA ptr :
         IF ptr = NULL THEN Got(IfMissing[what], NULL)
         ELSE IF oom = "part" THEN Got(CURLURLE_OUT_OF_MEMORY, NULL)
         ELSE Got(CURLURLE_OK, ptr))

\* the end of curl_url_set for a scalar part: part is duplicated and stored
\* in member f; port is the number converted for CURLUPART_PORT, else 0.
\* if(!*newp) reads the first byte of the copy: with newp NULL (the
\* allocation failed) that is a null pointer dereference, with an empty
\* part it returns out of memory and the copy is never freed.
SetStore(m, h, u, f, part, port, oom) ==
  IF oom = "newp" THEN Outcome(CURLURLE_OK, u, m, h, TRUE)
  ELSE Bind(Malloc(m), LAMBDA newp :
         IF part = <<>>
         THEN Outcome(CURLURLE_OUT_OF_MEMORY, u, Store(m, newp, part), h, FALSE)
         ELSE Outcome(CURLURLE_OK, u, Free(Store(m, newp, part), h[u][f]),
                      Store(h, u, IF port # 0
                                  THEN [h[u] EXCEPT ![f] = newp,
                                                    !.portnum = port]
                                  ELSE [h[u] EXCEPT ![f] = newp]),
                      FALSE))

\* SetReplace with the contents of u released before the result of curl_url
\* is looked at
SetReplaceEarly(u, c) ==
  IF c.result # CURLURLE_OK
  THEN Outcome(c.result, u, free_urlhandle(c.strs, c.hs[u]),
               Store(c.hs, u, ZeroStruct), FALSE)
  ELSE IF c.urlhandle = 0
  THEN Outcome(c.result, u, free_urlhandle(c.strs, c.hs[u]), c.hs, TRUE)
  ELSE Outcome(c.result, u, free_urlhandle(c.strs, c.hs[u]),
               Free(Store(c.hs, u, c.hs[c.urlhandle]), c.urlhandle), FALSE)

\* the end of the CURLUPART_URL case of curl_url_set: c is what curl_url
\* made of the new URL, and on success it replaces the contents of u.
\* copy_urlhandle reads *handle2: with handle2 NULL that is a null pointer
\* dereference, after the members of u have been freed.
SetReplace(u, c) ==
  IF c.result # CURLURLE_OK THEN Outcome(c.result, u, c.strs, c.hs, FALSE)
  ELSE IF c.urlhandle = 0
  THEN Outcome(c.result, u, free_urlhandle(c.strs, c.hs[u]), c.hs, TRUE)
  ELSE Outcome(c.result, u, free_urlhandle(c.strs, c.hs[u]),
               Free(Store(c.hs, u, c.hs[c.urlhandle]), c.urlhandle), FALSE)

\* the CURLUPART_URL case of curl_url_set.  oldurl and redired_url are
\* allocated and freed within the call.
SetURL(m, h, u, part, flags, oom, uninit) ==
  IF Curl_is_absolute_url(part)
  THEN SetReplace(u, curl_url(m, h, part, flags, oom, uninit))
  ELSE Bind(curl_url_get(Deref(m, h[u]), CURLUPART_URL, flags, oom),
            LAMBDA oldurl :
         IF oldurl.rc # CURLURLE_OK THEN Outcome(oldurl.rc, u, m, h, FALSE)
         ELSE IF oom \in {"url_clone", "newest"}
         THEN Outcome(CURLURLE_OUT_OF_MEMORY, u, m, h, FALSE)
         ELSE SetReplace(u, curl_url(m, h,
                                     Curl_concat_url(oldurl.str[1], part).str,
                                     flags, oom, uninit)))

\* curl_url_set(u, what, part, flags) for a non-null u and part
curl_url_set(m, h, u, what, part, flags, oom, uninit) ==
  IF what = CURLUPART_URL THEN SetURL(m, h, u, part, flags, oom, uninit)
  ELSE IF what \notin ScalarParts
  THEN Outcome(CURLURLE_UNKNOWN_PART, u, m, h, FALSE)
  ELSE IF /\ what = CURLUPART_SCHEME
          /\ CURLURL_NON_SUPPORT_SCHEME \notin flags
          /\ Curl_builtin_scheme(part) = 0
  THEN Outcome(CURLURLE_UNSUPPORTED_SCHEME, u, m, h, FALSE)
  ELSE IF what = CURLUPART_PORT
  THEN Bind(StrToL(part, 1).val, LAMBDA port :
         IF port <= 0 \/ port > 65535
         THEN Outcome(CURLURLE_BAD_PORT_NUMBER, u, m, h, FALSE)
         ELSE SetStore(m, h, u, "port", part, port, oom))
  ELSE SetStore(m, h, u, PartMember[what], part, 0, oom)

(***************************************************************************)
(* The state: the heap, the handles the caller holds, and the last calls   *)
(***************************************************************************)

VARIABLES
  strs,     \* the string heap: address -> bytes
  hs,       \* the live handles: address -> struct Curl_URL
  handle,   \* the caller's handle pointers, by slot (0 is NULL)
  part,     \* the string the last curl_url_get returned (0 when none, or freed)
  res,      \* the last call that made, changed or released a handle
  got,      \* the last curl_url_get, until its string is freed
  crashed,  \* a call dereferenced a null pointer
  nops      \* the number of calls recorded in res so far

vars == <<strs, hs, handle, part, res, got, crashed, nops>>

\* the number of calls making, changing or releasing handles in one run
MaxOps == 2

Slots == {1, 2}

NoCall == [op |-> "none", slot |-> 0, what |-> "", arg |-> <<>>, flags |-> {},
           oom |-> "", rc |-> ""]

NoGet == [slot |-> 0, what |-> "", flags |-> {}, oom |-> "", rc |-> ""]

Init ==
  /\ strs = <<>>
  /\ hs = <<>>
  /\ handle = [s \in Slots |-> 0]
  /\ part = 0
  /\ res = NoCall
  /\ got = NoGet
  /\ crashed = FALSE
  /\ nops = 0

\* the handle in a slot by value
Handle(s) == Deref(strs, hs[handle[s]])

\* a crashed program makes no further call
CanCall == ~crashed /\ nops < MaxOps

\* the call op leaves outcome c: the heaps, the caller's pointer for the
\* slot, and the record of the call (no result when it crashed)
Call(op, slot, what, arg, flags, oom, c) ==
  /\ strs' = c.strs
  /\ hs' = c.hs
  /\ crashed' = c.crashed
  /\ handle' = [handle EXCEPT ![slot] = c.urlhandle]
  /\ res' = [op |-> op, slot |-> slot, what |-> what, arg |-> arg,
             flags |-> flags, oom |-> oom,
             rc |-> IF c.crashed THEN "" ELSE c.result]
  /\ nops' = nops + 1
  /\ UNCHANGED <<part, got>>

\* curl_url(url, &handle[slot], flags)
DoCreate(slot, url, flags, oom, uninit) ==
  /\ CanCall
  /\ handle[slot] = 0
  /\ Call("curl_url", slot, "", url, flags, oom,
          curl_url(strs, hs, url, flags, oom, uninit))

\* handle[to] = curl_url_dup(handle[from])
DoDup(from, to, oom) ==
  /\ CanCall
  /\ handle[from] # 0
  /\ handle[to] = 0
  /\ Call("curl_url_dup", to, "", <<>>, {}, oom,
          curl_url_dup(strs, hs, handle[from], oom))

\* curl_url_cleanup(handle[slot]); the caller drops the pointer
DoCleanup(slot) ==
  /\ CanCall
  /\ handle[slot] # 0
  /\ Call("curl_url_cleanup", slot, "", <<>>, {}, "",
          curl_url_cleanup(strs, hs, handle[slot]))

\* curl_url_set(handle[slot], what, value, flags)
DoSet(slot, what, value, flags, oom, uninit) ==
  /\ CanCall
  /\ handle[slot] # 0
  /\ Call("curl_url_set", slot, what, value, flags, oom,
          curl_url_set(strs, hs, handle[slot], what, value, flags, oom, uninit))

\* curl_url_get returned g: *part is a fresh block when it delivers a string
Fetch(slot, what, flags, oom, g) ==
  /\ strs' = IF g.str # NULL THEN Store(strs, Malloc(strs), g.str[1]) ELSE strs
  /\ part' = IF g.str # NULL THEN Malloc(strs) ELSE 0
  /\ got' = [slot |-> slot, what |-> what, flags |-> flags, oom |-> oom,
             rc |-> g.rc]
  /\ UNCHANGED <<hs, handle, res, crashed, nops>>

\* curl_url_get(handle[slot], what, &part, flags)
DoGet(slot, what, flags, oom) ==
  /\ ~crashed
  /\ got = NoGet
  /\ handle[slot] # 0
  /\ Fetch(slot, what, flags, oom, curl_url_get(Handle(slot), what, flags, oom))

\* the caller is done with the result of curl_url_get: free(part)
FreePart ==
  /\ got # NoGet
  /\ strs' = Free(strs, part)
  /\ part' = 0
  /\ got' = NoGet
  /\ UNCHANGED <<hs, handle, res, crashed, nops>>

(***************************************************************************)
(* The accessor API driven by a caller: Spec                               *)
(***************************************************************************)

\* what the unwritten host name area of the scratch buffer may hold when a
\* file: URL is parsed
UninitHosts == {<<>>, S("g:9")}

UninitFor(url) ==
  IF url_has_scheme(url) /\ CasePrefixAt(S("file:"), url, 1) THEN UninitHosts
  ELSE {<<>>}

\* an allocation failure is injected only into calls without options
OomFor(flags, sites) == IF flags = {} THEN {""} \cup sites ELSE {""}

\* the allocations of curl_url, in the order they are made
CreateSites == {"handle", "scratch", "scheme", "dedotdotify", "path",
                "login", "port", "host", "query", "fragment"}

ApiURLs == {S("http://u:p@h:80/a/b?q#f"), S("ftp://h/d/"),
            S("http://[::1]:8080/x"), S("file:///e")}

ApiCreateFlags == {{}, {CURLURL_VERIFY_ONLY}}

SetValues ==
  [w \in ScalarParts |->
     IF w = CURLUPART_SCHEME THEN {S("https"), S("foo")}
     ELSE IF w = CURLUPART_PORT THEN {S("21"), S("443"), S("80x"), S("0")}
     ELSE {<<>>, S("v")}]

SetFlags == {{}, {CURLURL_NON_SUPPORT_SCHEME}}

SetUrlValues == {S("http://o/n?m"), S("https://[::1]:443/"), S("http://h:x/"),
                 S("foo://h/"), S("../c d"), S("//o2:7/x"), S("/abs"),
                 S("?n=1"), S("x/./y"), S("//[z")}

SetUrlFlags == {{}, {CURLURL_VERIFY_ONLY}, {CURLURL_NON_SUPPORT_SCHEME}}

SetUrlSites == {"aprintf", "url_clone", "newest"} \cup CreateSites

GetFlags == {{}, {CURLURL_DEFAULT_PORT}, {CURLURL_NO_DEFAULT_PORT},
             {CURLURL_DEFAULT_SCHEME}}

Create ==
  /\ got = NoGet
  /\ \E url \in ApiURLs, flags \in ApiCreateFlags :
       \E uninit \in UninitFor(url) : DoCreate(1, url, flags, "", uninit)

Dup ==
  /\ got = NoGet
  /\ \E oom \in {"", "handle"}
                \cup {StringMembers[i] : i \in 1..Len(StringMembers)} :
       DoDup(1, 2, oom)

Cleanup == got = NoGet /\ \E slot \in Slots : DoCleanup(slot)

SetPart ==
  /\ got = NoGet
  /\ \E slot \in Slots, what \in ScalarParts, flags \in SetFlags :
       \E value \in SetValues[what], oom \in OomFor(flags, {"newp"}) :
         DoSet(slot, what, value, flags, oom, <<>>)

SetUrl ==
  /\ got = NoGet
  /\ \E slot \in Slots, value \in SetUrlValues, flags \in SetUrlFlags :
       \E oom \in OomFor(flags, SetUrlSites), uninit \in UninitFor(value) :
         DoSet(slot, CURLUPART_URL, value, flags, oom, uninit)

Get ==
  \E slot \in Slots, what \in ScalarParts \cup {CURLUPART_URL},
     flags \in GetFlags :
    \E oom \in OomFor(flags, IF what = CURLUPART_URL THEN {"aprintf"}
                             ELSE {"part"}) :
      DoGet(slot, what, flags, oom)

Next == Create \/ Dup \/ Cleanup \/ SetPart \/ SetUrl \/ Get \/ FreePart

Spec == Init /\ [][Next]_vars

(***************************************************************************)
(* The parser on URLs put together from pieces, and the round trip through *)
(* curl_url_get: SpecParse                                                 *)
(***************************************************************************)

ParseSchemes == {S("http"), S("foo")}
ParseLogins == {<<>>, S("u@"), S("u:p@"), S("u:p;o@"), S(";o@")}
ParseHosts == {S("h"), S("host"), S("[::1]"), S("[ax"), S("h_"), S("[")}
ParsePorts == {<<>>, S(":"), S(":80"), S(":0"), S(":8080"), S(":80x")}
ParsePaths == {<<>>, S("/"), S("/a/../b"), S("/p?q#f"), S("?q"), S("#f")}

ParseURLs ==
  {sc \o S("://") \o lg \o ho \o po \o pa :
     sc \in ParseSchemes, lg \in ParseLogins, ho \in ParseHosts,
     po \in ParsePorts, pa \in ParsePaths}
  \cup {S(":x"), S("h/p"), S("http:/"), S("file:///e?q"), S("file://x/e"),
        S("file:a/../b"), S("file:///a/./b")}

ParseFlags == {{}, {CURLURL_VERIFY_ONLY}, {CURLURL_DISALLOW_USER},
               {CURLURL_NON_SUPPORT_SCHEME}, {CURLURL_DEFAULT_SCHEME},
               {CURLURL_PATH_AS_IS}}

\* handle 1 is created from a URL
ParseCreate ==
  /\ nops = 0
  /\ \E url \in ParseURLs, flags \in ParseFlags :
       \E oom \in OomFor(flags, CreateSites), uninit \in UninitFor(url) :
         DoCreate(1, url, flags, oom, uninit)

\* the URL of handle 1 is extracted
Serialize == handle[2] = 0 /\ DoGet(1, CURLUPART_URL, {}, "")

\* handle 2 is created from the URL extracted, with the options of the
\* first curl_url call
Recreate ==
  /\ part # 0
  /\ \E uninit \in UninitFor(strs[part]) :
       DoCreate(2, strs[part], res.flags, "", uninit)

NextParse == ParseCreate \/ Serialize \/ Recreate

SpecParse == Init /\ [][NextParse]_vars

(***************************************************************************)
(* The escaping pair and the resolver on bounded inputs: SpecEsc           *)
(***************************************************************************)

\* the longest input string
MaxLen == 4

\* the bytes of the input strings: a letter, the separators the functions
\* look at, a space and a byte above 127
EscBytes == {Ord("a"), SLASH, QMARK, DOT, SPACE, 233}

EscStrings == UNION {[1..n -> EscBytes] : n \in 0..MaxLen}

EscBases == {S("http://a/b/c"), S("http://a/b/c?q=1"), S("http://a"),
             S("a/b"), S("http://a/s/t/c?q=/1"), S("http://a//c")}

\* the most "../" a reference starts with
MaxClimb == 3

RECURSIVE Climbs(_)
\* k times "../"
Climbs(k) == IF k = 0 THEN <<>> ELSE S("../") \o Climbs(k - 1)

\* what follows the "../" of a reference
ClimbRests == {<<>>, S("d"), S("d e"), S("./d"), S(".."), S("d?e f"), <<233>>}

\* references longer than MaxLen: "../" segments and a rest, and a new
\* authority followed by a path
LongRefs ==
  {Climbs(k) \o r : k \in 0..MaxClimb, r \in ClimbRests} \cup {S("// / ")}

\* res holds the arguments the functions are called with
InitEsc ==
  /\ strs = <<>>
  /\ hs = <<>>
  /\ handle = [s \in Slots |-> 0]
  /\ part = 0
  /\ res \in [op : {"input"}, base : EscBases,
              url : EscStrings \cup LongRefs, relative : BOOLEAN]
  /\ got = NoGet
  /\ crashed = FALSE
  /\ nops = 0

\* newlen = Curl_strlen_url(url, relative);
\* Curl_strcpy_url(output, url, relative)
Escape ==
  /\ res.op = "input"
  /\ res' = [op |-> "escape", url |-> res.url, relative |-> res.relative,
             newlen |-> Curl_strlen_url(res.url, res.relative),
             output |-> Curl_strcpy_url(res.url, res.relative)]
  /\ UNCHANGED <<strs, hs, handle, part, got, crashed, nops>>

\* newest = Curl_concat_url(base, url)
Concat ==
  /\ res.op = "input"
  /\ res.relative
  /\ res' = [op |-> "Curl_concat_url", base |-> res.base, relurl |-> res.url,
             newest |-> Curl_concat_url(res.base, res.url)]
  /\ UNCHANGED <<strs, hs, handle, part, got, crashed, nops>>

NextEsc == Escape \/ Concat

SpecEsc == InitEsc /\ [][NextEsc]_vars

(***************************************************************************)
(* Two handles living side by side through longer runs of calls: SpecOwn   *)
(***************************************************************************)

\* the number of calls making, changing or releasing handles in one run
MaxOwnOps == 3

OwnURLs == {S("http://u:p@h:80/a/b?q#f"), S("ftp://h/d/")}

OwnSetValues ==
  [w \in {"CURLUPART_USER", "CURLUPART_HOST", CURLUPART_PORT} |->
     IF w = CURLUPART_PORT THEN {S("21")} ELSE {<<>>, S("v")}]

OwnSetUrlValues == {S("http://o/n?m"), S("../c d"), S("foo://h/")}

OwnGetParts == {CURLUPART_URL, CURLUPART_PORT, "CURLUPART_HOST"}

OwnCanCall == ~crashed /\ nops < MaxOwnOps /\ got = NoGet

\* curl_url(url, &handle[slot], 0)
OwnCreate ==
  /\ OwnCanCall
  /\ \E slot \in Slots :
       /\ handle[slot] = 0
       /\ \E url \in OwnURLs :
            Call("curl_url", slot, "", url, {}, "",
                 curl_url(strs, hs, url, {}, "", <<>>))

\* handle[to] = curl_url_dup(handle[from])
OwnDup ==
  /\ OwnCanCall
  /\ \E from \in Slots, to \in Slots :
       /\ handle[from] # 0
       /\ handle[to] = 0
       /\ \E oom \in {"", "host"} :
            Call("curl_url_dup", to, "", <<>>, {}, oom,
                 curl_url_dup(strs, hs, handle[from], oom))

\* curl_url_cleanup(handle[slot])
OwnCleanup ==
  /\ OwnCanCall
  /\ \E slot \in Slots :
       /\ handle[slot] # 0
       /\ Call("curl_url_cleanup", slot, "", <<>>, {}, "",
               curl_url_cleanup(strs, hs, handle[slot]))

\* curl_url_set(handle[slot], what, value, 0) for a part other than the URL
OwnSetPart ==
  /\ OwnCanCall
  /\ \E slot \in Slots :
       /\ handle[slot] # 0
       /\ \E what \in DOMAIN OwnSetValues :
            \E value \in OwnSetValues[what] :
              Call("curl_url_set", slot, what, value, {}, "",
                   curl_url_set(strs, hs, handle[slot], what, value, {}, "",
                                <<>>))

\* curl_url_set(handle[slot], CURLUPART_URL, value, 0)
OwnSetUrl ==
  /\ OwnCanCall
  /\ \E slot \in Slots :
       /\ handle[slot] # 0
       /\ \E value \in OwnSetUrlValues, oom \in {"", "host"} :
            Call("curl_url_set", slot, CURLUPART_URL, value, {}, oom,
                 curl_url_set(strs, hs, handle[slot], CURLUPART_URL, value,
                              {}, oom, <<>>))

\* curl_url_get(handle[slot], what, &part, 0)
OwnGet == \E slot \in Slots, what \in OwnGetParts : DoGet(slot, what, {}, "")

NextOwn ==
  OwnCreate \/ OwnDup \/ OwnCleanup \/ OwnSetPart \/ OwnSetUrl \/ OwnGet
  \/ FreePart

SpecOwn == Init /\ [][NextOwn]_vars

(***************************************************************************)
(* Properties                                                              *)
(***************************************************************************)

\* the nine strings and the port number of a handle given by value
Fields(u) == [f \in DOMAIN u \ {"scratch"} |-> u[f]]

\* the step is a call of op that returned to the caller
Returned(op) == nops' = nops + 1 /\ ~crashed' /\ res'.op = op

\* C1: a curl_url_set of CURLUPART_URL that returns an error (the new URL
\* does not parse, the URL of the handle cannot be extracted, the resolver
\* runs out of memory, or the resolved URL does not parse) leaves the nine
\* strings and the port number of the handle exactly as they were.
SetUrlErrorKeepsHandle ==
  [][\A s \in Slots :
       (/\ Returned("curl_url_set")
        /\ res'.slot = s
        /\ res'.what = CURLUPART_URL
        /\ res'.rc # CURLURLE_OK)
       => /\ handle'[s] = handle[s]
          /\ Fields(Deref(strs', hs'[handle'[s]]))
               = Fields(Deref(strs, hs[handle[s]]))]_vars

\* a relative URL was resolved against a handle holding a user name, and
\* the parse of the resolved URL failed
SetUrlFailedLate ==
  /\ res.op = "curl_url_set"
  /\ res.what = CURLUPART_URL
  /\ res.arg = S("../c d")
  /\ res.oom = "host"
  /\ res.rc = CURLURLE_OUT_OF_MEMORY
  /\ Handle(res.slot).user = Some(S("u"))

\* C2: whenever curl_url returns an error, or is called with
\* CURLURL_VERIFY_ONLY, the caller's handle pointer is NULL and every block
\* allocated during the call (the scratch buffer, the members stored before
\* the failure, the struct) has been freed when it returns.
CreateFailureReleasesAll ==
  [][(/\ Returned("curl_url")
      /\ (res'.rc # CURLURLE_OK \/ CURLURL_VERIFY_ONLY \in res'.flags))
     => /\ handle'[res'.slot] = 0
        /\ strs' = strs
        /\ hs' = hs]_vars

\* curl_url failed at its last allocation, with the scratch buffer and the
\* members before the fragment allocated
CreateFailedLate ==
  /\ res.op = "curl_url"
  /\ res.oom = "fragment"
  /\ res.rc = CURLURLE_OUT_OF_MEMORY
  /\ StrChr(res.arg, AT, 1) # 0
  /\ handle[res.slot] = 0
  /\ strs = <<>>
  /\ hs = <<>>

\* C3: in every handle made by curl_url, curl_url_set and curl_url_dup, a
\* port string that is present is a decimal numeral, portnum is its value,
\* and that value is in 1..65535.
PortIsDecimal ==
  ~crashed =>
    \A s \in Slots :
      (handle[s] # 0 /\ Handle(s).port # NULL) =>
        LET port == Handle(s).port[1]
        IN /\ port # <<>>
           /\ \A i \in 1..Len(port) : port[i] \in Digits
           /\ DecVal(port) = Handle(s).portnum
           /\ Handle(s).portnum \in 1..65535

\* the parts C4 is about
StringParts == ScalarParts \ {CURLUPART_SCHEME, CURLUPART_PORT}

\* C4: for each of USER, PASSWORD, OPTIONS, HOST, PATH, QUERY and FRAGMENT
\* and every value, the empty string included, curl_url_set returns
\* CURLURLE_OK when no allocation fails, replaces that member by the value,
\* leaves the other members as they were, and curl_url_get of the part then
\* delivers the value.
SetStoresAnyString ==
  [][\A s \in Slots :
       (/\ nops' = nops + 1
        /\ res'.op = "curl_url_set"
        /\ res'.slot = s
        /\ res'.what \in StringParts
        /\ res'.oom = "")
       => /\ ~crashed'
          /\ res'.rc = CURLURLE_OK
          /\ Fields(Deref(strs', hs'[handle'[s]]))
               = [Fields(Deref(strs, hs[handle[s]]))
                    EXCEPT ![PartMember[res'.what]] = Some(res'.arg)]
          /\ curl_url_get(Deref(strs', hs'[handle'[s]]), res'.what, {}, "")
               = Got(CURLURLE_OK, Some(res'.arg))]_vars

\* the handler registered for the scheme of a handle given by value (0 when
\* it has no scheme or the scheme is not registered)
HandlerOf(u) == IF u.scheme = NULL THEN 0 ELSE Curl_builtin_scheme(u.scheme[1])

\* C5: curl_url_get of CURLUPART_PORT decides by the scheme the handle has
\* when it is called.  Without a stored port it delivers the default port of
\* that scheme under CURLURL_DEFAULT_PORT and CURLURLE_NO_PORT without the
\* flag; with a stored port that is the default port of that scheme it
\* returns CURLURLE_NO_PORT under CURLURL_NO_DEFAULT_PORT, and without the
\* flag it delivers the stored port.
PortByCurrentScheme ==
  (got.what = CURLUPART_PORT /\ got.oom = "" /\ HandlerOf(Handle(got.slot)) # 0)
  => LET u == Handle(got.slot)
         default == Dec(defport(HandlerOf(u)))
     IN /\ (u.port = NULL /\ CURLURL_DEFAULT_PORT \in got.flags)
             => got.rc = CURLURLE_OK /\ part # 0 /\ strs[part] = default
        /\ (u.port = NULL /\ CURLURL_DEFAULT_PORT \notin got.flags)
             => got.rc = "CURLURLE_NO_PORT" /\ part = 0
        /\ (u.port = Some(default) /\ CURLURL_NO_DEFAULT_PORT \in got.flags)
             => got.rc = "CURLURLE_NO_PORT" /\ part = 0
        /\ (u.port # NULL /\ CURLURL_NO_DEFAULT_PORT \notin got.flags)
             => got.rc = CURLURLE_OK /\ part # 0 /\ strs[part] = u.port[1]

\* the port 80 parsed from an http URL is the default port no more after
\* the scheme was set to https, and was asked for with
\* CURLURL_NO_DEFAULT_PORT
PortAfterSchemeChange ==
  /\ res.op = "curl_url_set"
  /\ res.what = CURLUPART_SCHEME
  /\ res.arg = S("https")
  /\ res.rc = CURLURLE_OK
  /\ got.slot = res.slot
  /\ got.what = CURLUPART_PORT
  /\ got.flags = {CURLURL_NO_DEFAULT_PORT}
  /\ got.rc = CURLURLE_OK
  /\ strs[part] = S("80")

\* C6: for every absolute URL curl_url accepts, curl_url_get of
\* CURLUPART_URL on the handle succeeds, and curl_url on the string delivered
\* gives a handle with the same nine strings and port number, user, password
\* and options included.  (Without CURLURL_DEFAULT_SCHEME curl_url accepts
\* absolute URLs only.)
RoundTrip ==
  /\ (/\ got.what = CURLUPART_URL
      /\ res.op = "curl_url"
      /\ res.slot = 1
      /\ CURLURL_DEFAULT_SCHEME \notin res.flags)
     => got.rc = CURLURLE_OK
  /\ (/\ res.op = "curl_url"
      /\ res.slot = 2
      /\ CURLURL_DEFAULT_SCHEME \notin res.flags)
     => /\ res.rc = CURLURLE_OK
        /\ handle[2] # 0
        /\ Fields(Handle(2)) = Fields(Handle(1))

\* the last call is the first curl_url, without flags and without an
\* allocation failing
CreatedPlain ==
  /\ res.op = "curl_url"
  /\ res.slot = 1
  /\ res.flags = {}
  /\ res.oom = ""

\* C7: after a bracketed IPv6 literal the port is optional: curl_url
\* succeeds with the literal as the host and no port when nothing follows
\* the ']', and with the literal as the host and the port stored when ':'
\* and a valid port follow.
BracketPortOptional ==
  CreatedPlain =>
    \A lg \in ParseLogins, po \in {<<>>, S(":80"), S(":8080")},
       pa \in ParsePaths :
      res.arg = S("http://") \o lg \o S("[::1]") \o po \o pa
      => /\ res.rc = CURLURLE_OK
         /\ handle[1] # 0
         /\ Handle(1).host = Some(S("[::1]"))
         /\ Handle(1).port = IF po = <<>> THEN NULL ELSE Some(Tail(po))

\* C8: a ':' after the host name that no digit follows is dropped: curl_url
\* succeeds, the host is the text before the colon and no port is stored.
ColonWithoutDigitsDropped ==
  CreatedPlain =>
    \A lg \in ParseLogins, ho \in {S("h"), S("host")}, pa \in ParsePaths :
      res.arg = S("http://") \o lg \o ho \o S(":") \o pa
      => /\ res.rc = CURLURLE_OK
         /\ handle[1] # 0
         /\ Handle(1).host = Some(ho)
         /\ Handle(1).port = NULL
         /\ Handle(1).portnum = 0

\* a host name as C9 wants it
ValidHost(host) ==
  IF At(host, 1) = LBRACKET
  THEN /\ Len(host) >= 2
       /\ host[Len(host)] = RBRACKET
       /\ \A i \in 2..(Len(host) - 1) : host[i] \in HexChars \cup {COLON, DOT}
  ELSE \A i \in 1..Len(host) :
         host[i] \in Digits \cup Lower \cup Upper \cup {DASH, DOT}

\* C9: curl_url succeeds on a URL of a scheme other than file only with a
\* valid host name: one starting with '[' ends with ']' and holds hex
\* digits, ':' and '.' in between, any other holds ASCII letters, digits,
\* '-' and '.' only.
AcceptedHostIsValid ==
  \A s \in Slots :
    (/\ res.op = "curl_url"
     /\ res.slot = s
     /\ res.rc = CURLURLE_OK
     /\ handle[s] # 0
     /\ ~CasePrefixAt(S("file:"), res.arg, 1))
    => /\ Handle(s).host # NULL
       /\ ValidHost(Handle(s).host[1])

\* C10: the length Curl_strlen_url returns is the number of bytes
\* Curl_strcpy_url writes before the terminator, for either value of
\* relative, and Curl_concat_url never writes more bytes to newest than it
\* allocated.
EscapedLengthIsWritten ==
  /\ res.op = "escape" => res.newlen = Len(res.output)
  /\ res.op = "Curl_concat_url" => res.newest.written <= res.newest.size

\* a relative URL with a space on either side of the '?' and a byte above
\* 127, all three escaped
EscapedAll ==
  /\ res.op = "escape"
  /\ res.relative
  /\ res.url = <<SPACE, QMARK, SPACE, 233>>
  /\ res.output = S("%20?+%e9")
  /\ res.newlen = 8

\* the blocks a struct Curl_URL points to
Members(u) == {u[f] : f \in DOMAIN u \ {"portnum"}} \ {0}

\* the number of members of a struct Curl_URL that are not NULL
MemberCount(u) == Cardinality({f \in DOMAIN u \ {"portnum"} : u[f] # 0})

\* every string block has one owner: the members of the live handles point
\* to live blocks, no two members of one or of two handles to the same one,
\* and the string curl_url_get returned is none of them
OwnedOnce ==
  ~crashed =>
    /\ \A s \in Slots :
         handle[s] # 0 =>
           /\ handle[s] \in DOMAIN hs
           /\ Members(hs[handle[s]]) \subseteq DOMAIN strs
           /\ Cardinality(Members(hs[handle[s]])) = MemberCount(hs[handle[s]])
    /\ (handle[1] # 0 /\ handle[2] # 0) =>
         /\ handle[1] # handle[2]
         /\ Members(hs[handle[1]]) \cap Members(hs[handle[2]]) = {}
    /\ part # 0 =>
         /\ part \in DOMAIN strs
         /\ \A s \in Slots : handle[s] # 0 => part \notin Members(hs[handle[s]])

\* a step leaves every handle it is not a call on as it was, and a
\* duplicate made by the step equals the handle it was made from
OthersUntouched ==
  \A s \in Slots :
    (handle[s] # 0 /\ ~crashed' /\ ~(nops' = nops + 1 /\ res'.slot = s))
    => /\ handle'[s] = handle[s]
       /\ Deref(strs', hs'[handle'[s]]) = Deref(strs, hs[handle[s]])
       /\ (Returned("curl_url_dup") /\ res'.rc = CURLURLE_OK)
            => Fields(Deref(strs', hs'[handle'[res'.slot]]))
                 = Fields(Deref(strs, hs[handle[s]]))

EndsWith(s, t) ==
  Len(t) <= Len(s) /\ SubSeq(s, Len(s) - Len(t) + 1, Len(s)) = t

\* the reference starts with "//" and replaces the authority of the base
ReplacesAuthority(relurl) == At(relurl, 1) = SLASH /\ At(relurl, 2) = SLASH

\* what is left of the reference after the leading "//", "./" and "../"
Remainder(base, relurl) == From(relurl, ConcatCut(base, relurl).useurl)

\* url escaped as a whole
EscapedWhole(url) == Curl_strcpy_url(url, TRUE)

\* url with the bytes before the end of its host name as they are and the
\* rest escaped
EscapedAfterHost(url) ==
  SubSeq(url, 1, find_host_sep(url) - 1)
    \o EscapedWhole(From(url, find_host_sep(url)))

\* C12 as stated: Curl_concat_url leaves the bytes of the remainder before
\* its first '/' or '?' unescaped only when the reference does not start
\* with "//", and escapes the whole remainder when it does.
HostSkipWhenAuthorityKept ==
  res.op = "Curl_concat_url" =>
    EndsWith(res.newest.str,
             IF ReplacesAuthority(res.relurl)
             THEN EscapedWhole(Remainder(res.base, res.relurl))
             ELSE EscapedAfterHost(Remainder(res.base, res.relurl)))

\* C12 amended: Curl_concat_url leaves the bytes of the remainder before
\* the end of its host name unescaped only when the reference starts with
\* "//" and replaces the authority; when the reference does not start with
\* "//" the whole remainder is escaped.
HostSkipWhenAuthorityReplaced ==
  res.op = "Curl_concat_url" =>
    EndsWith(res.newest.str,
             IF ReplacesAuthority(res.relurl)
             THEN EscapedAfterHost(Remainder(res.base, res.relurl))
             ELSE EscapedWhole(Remainder(res.base, res.relurl)))

\* a reference that replaces the authority with a host name holding a
\* space, followed by a path holding one: only the second is escaped
SpaceInNewHost ==
  /\ res.op = "Curl_concat_url"
  /\ res.base = S("http://a/b/c")
  /\ res.relurl = S("// / ")
  /\ res.newest.str = S("http:// /%20")

\* the slash that ends the "scheme://host" of a base, 0 when it has none
RootEnd(base) ==
  IF StrStrSlashSlash(base) = 0 THEN 0
  ELSE StrChr(base, SLASH, StrStrSlashSlash(base) + 2)

\* base is "scheme://host/..." with an optional "?query" after the path
Shaped(base) ==
  /\ StrStrSlashSlash(base) > 1
  /\ At(base, StrStrSlashSlash(base) - 1) = COLON
  /\ RootEnd(base) # 0
  /\ StrChr(base, QMARK, 1) \in {0} \cup (RootEnd(base) + 1)..Len(base)

\* the "scheme://host/" of a base
Root(base) == SubSeq(base, 1, RootEnd(base))

\* the path of a base without its query and its last segment:
\* "s1/.../sn/"
Dir(base) ==
  SubSeq(base, RootEnd(base) + 1,
         StrRChr(CutAtOr(base, StrChr(base, QMARK, 1)), SLASH, 1))

\* no segment of dir is empty
NoEmptySegment(dir) ==
  \A i \in 1..Len(dir) : dir[i] = SLASH => i > 1 /\ dir[i - 1] # SLASH

RECURSIVE DropSegments(_, _)
\* "s1/.../sn/" without its last k segments
DropSegments(dir, k) ==
  IF k = 0 \/ dir = <<>> THEN dir
  ELSE DropSegments(SubSeq(dir, 1, StrRChr(SubSeq(dir, 1, Len(dir) - 1),
                                           SLASH, 1)),
                    k - 1)

RECURSIVE Climb(_)
\* the number of "../" a reference starts with
Climb(relurl) ==
  IF At(relurl, 1) = DOT /\ At(relurl, 2) = DOT /\ At(relurl, 3) = SLASH
  THEN 1 + Climb(From(relurl, 4))
  ELSE 0

\* the reference after its leading "../"
Rest(relurl) == From(relurl, 3 * Climb(relurl) + 1)

\* C13 as stated: for a base "scheme://host/s1/.../sn/last" with an
\* optional query and a reference of k "../" followed by r, r starting
\* with neither '/' nor '?', Curl_concat_url returns "scheme://host/", the
\* first n - k segments and r as it is.
ClimbAppendsRest ==
  (/\ res.op = "Curl_concat_url"
   /\ Shaped(res.base)
   /\ At(Rest(res.relurl), 1) \notin {SLASH, QMARK})
  => res.newest.str
       = Root(res.base) \o DropSegments(Dir(res.base), Climb(res.relurl))
           \o Rest(res.relurl)

\* C13 amended: for a base "scheme://host/s1/.../sn/last" with non-empty
\* segments and an optional query, and a reference of k "../" followed by
\* r, r starting with neither '/' nor '?' nor "../" nor, when k = 0, "./",
\* Curl_concat_url returns "scheme://host/", the first n - k segments (none
\* when k >= n) and r escaped as a whole.
ClimbAppendsEscapedRest ==
  (/\ res.op = "Curl_concat_url"
   /\ Shaped(res.base)
   /\ NoEmptySegment(Dir(res.base))
   /\ At(Rest(res.relurl), 1) \notin {SLASH, QMARK}
   /\ ~(/\ Climb(res.relurl) = 0
        /\ At(res.relurl, 1) = DOT
        /\ At(res.relurl, 2) = SLASH))
  => res.newest.str
       = Root(res.base) \o DropSegments(Dir(res.base), Climb(res.relurl))
           \o EscapedWhole(Rest(res.relurl))

\* a base of two segments, a last one and a query, and a reference that
\* climbs one level past the root
ClimbedPastRoot ==
  /\ res.op = "Curl_concat_url"
  /\ res.base = S("http://a/s/t/c?q=/1")
  /\ res.relurl = S("../../../d e")
  /\ res.newest.str = S("http://a/d%20e")

\* no segment of path is "." or ".."
NoDotSegment(path) ==
  \A i \in 1..Len(path) :
    (path[i] = SLASH /\ At(path, i + 1) = DOT)
    => /\ At(path, i + 2) \notin {SLASH, NUL}
       /\ At(path, i + 2) = DOT => At(path, i + 3) \notin {SLASH, NUL}

\* the path of a URL that ends with pa: pa up to its query and fragment
PathOf(pa) ==
  CutAtOr(CutAtOr(pa, StrChr(pa, QMARK, 1)),
          StrChr(CutAtOr(pa, StrChr(pa, QMARK, 1)), HASH, 1))

\* C14: after every successful curl_url, of a file: URL too, the path is
\* stored and begins with '/'; without CURLURL_PATH_AS_IS the stored path
\* is its own dot-segment normalization and has no "." or ".." segment,
\* also when the leading '/' was inserted; with CURLURL_PATH_AS_IS a
\* non-empty path that starts with '/' is stored as it is.
StoredPathNormalized ==
  (/\ res.op = "curl_url"
   /\ res.rc = CURLURLE_OK
   /\ ~crashed
   /\ handle[res.slot] # 0)
  => /\ Handle(res.slot).path # NULL
     /\ At(Handle(res.slot).path[1], 1) = SLASH
     /\ CURLURL_PATH_AS_IS \notin res.flags
          => /\ Curl_dedotdotify(Handle(res.slot).path[1])
                  = Handle(res.slot).path[1]
             /\ NoDotSegment(Handle(res.slot).path[1])
     /\ CURLURL_PATH_AS_IS \in res.flags
          => \A pa \in ParsePaths :
               (At(pa, 1) = SLASH /\ EndsWith(res.arg, pa))
               => Handle(res.slot).path[1] = PathOf(pa)

\* the URL a set of CURLUPART_URL to value parses for the handle u: value
\* when it is absolute, value resolved against the URL of u when not
SetTarget(u, value) ==
  IF Curl_is_absolute_url(value) THEN value
  ELSE Curl_concat_url(curl_url_get(u, CURLUPART_URL, {}, "").str[1],
                       value).str

\* the fields of the handle a curl_url of url with flags, less the
\* verify-only one, makes
FreshFields(url, flags) ==
  Bind(curl_url(<<>>, <<>>, url, flags \ {CURLURL_VERIFY_ONLY}, "", <<>>),
       LAMBDA c : Fields(Deref(c.strs, c.hs[c.urlhandle])))

\* C15: whenever curl_url_set of CURLUPART_URL returns CURLURLE_OK, under
\* every flag it accepts, CURLURL_VERIFY_ONLY included, the handle holds
\* the fields a curl_url of the absolute value, or of the value resolved
\* against the URL the handle had, produces; and the handle2 that
\* copy_urlhandle copies into the handle is never NULL.
SetUrlHoldsFreshCreate ==
  [][\A s \in Slots :
       (/\ nops' = nops + 1
        /\ res'.op = "curl_url_set"
        /\ res'.slot = s
        /\ res'.what = CURLUPART_URL)
       => /\ ~crashed'
          /\ res'.rc = CURLURLE_OK
               => Fields(Deref(strs', hs'[handle'[s]]))
                    = FreshFields(SetTarget(Deref(strs, hs[handle[s]]),
                                            res'.arg),
                                  res'.flags)]_vars

=============================================================================
